---------------------------- MODULE Spec2Model ----------------------------
(* Model of the expense-tracker scaffold: the settings' derived connection *)
(* string (app/core/config.py), the migration runner (alembic/env.py) and  *)
(* the service's engine, sessions, health probe and lifespan               *)
(* (app/database/connection.py, app/database/session.py, app/main.py).     *)
EXTENDS Integers, Sequences, FiniteSets, TLC

VARIABLES
    DATABASE_URL,       \* Settings.DATABASE_URL, a sequence of URL tokens
    url_pc,             \* position of the settings reader
    url_async,          \* last value read from settings.database_url_async
    url_again,          \* database_url_async applied to its own result
    mig_pc,             \* position of one alembic invocation
    mig_in,             \* the invocation's inputs (flag, database, scripts)
    mig_mode,           \* branch taken at env.py:72
    mig_engine,         \* the connectable of run_migrations_online
    mig_opened,         \* connections this run has opened
    mig_live,           \* connections this run has open now
    mig_conn_src,       \* where the run's connection came from
    mig_tx,             \* state of context.begin_transaction()
    mig_txcount,        \* transactions begun by this run
    mig_pending,        \* steps executed inside the open transaction
    mig_schema,         \* steps retained by the database
    mig_sql,            \* steps rendered as SQL text (offline)
    mig_exit,           \* "running", "ok" or "fail"
    mig_error,          \* the exception the run ended with
    mig_failed_step,    \* the step that raised it (0: none)
    DATABASE_POOL_MAX,  \* Settings.DATABASE_POOL_MAX
    DATABASE_TIMEOUT,   \* Settings.DATABASE_TIMEOUT
    dbUp,               \* whether the database accepts connections
    engine,             \* "none" until app.database.connection is imported
    cur,                \* index of the pool the engine uses now
    pools,              \* every pool the engine has had
    lifespan,           \* position of the lifespan context manager
    disposeCalls,       \* calls of engine.dispose()
    dbOpen,             \* get_db units holding a session without connection
    dbHold,             \* get_db units holding a connection, per pool
    hc,                 \* the /health/db requests
    hresp,              \* what each /health/db request answered
    contacted,          \* a connection to the database was attempted
    everAcquired,       \* a session was used (the pool was asked)
    connErrAt,          \* where a failure to connect has surfaced
    scenario            \* what the environment offers: "load" or "lifecycle"

urlVars == <<DATABASE_URL, url_pc, url_async, url_again>>
migVars == <<mig_pc, mig_in, mig_mode, mig_engine, mig_opened, mig_live,
             mig_conn_src, mig_tx, mig_txcount, mig_pending, mig_schema,
             mig_sql, mig_exit, mig_error, mig_failed_step>>
svcVars == <<DATABASE_POOL_MAX, DATABASE_TIMEOUT, dbUp, engine, cur, pools,
             lifespan, disposeCalls, dbOpen, dbHold, hc, hresp, contacted,
             everAcquired, connErrAt, scenario>>
vars == <<urlVars, migVars, svcVars>>

--------------------------------------------------------------------------
(* Settings.database_url_async, config.py:20-25.                          *)
(* A URL is a sequence of tokens; the concatenation of the tokens is the  *)
(* Python string, and "postgresql://" can only occur as the two tokens    *)
(* "postgresql", "://" in a row.                                          *)

MaxUrlLen == 5

Tokens == {"postgresql", "+asyncpg", "://", "x"}

PlainPrefix == <<"postgresql", "://">>

AsyncPrefix == <<"postgresql", "+asyncpg", "://">>

Urls == UNION {[1..n -> Tokens] : n \in 0..MaxUrlLen}

\* str.startswith
StartsWith(s, p) ==
    /\ Len(s) >= Len(p)
    /\ SubSeq(s, 1, Len(p)) = p

\* whether old occurs in s at index i
OccursAt(s, old, i) ==
    /\ i >= 1
    /\ i + Len(old) - 1 <= Len(s)
    /\ SubSeq(s, i, i + Len(old) - 1) = old

\* str.replace(old, new, 1): the leftmost occurrence only
ReplaceFirst(s, old, new) ==
    LET hits == {i \in 1..Len(s) : OccursAt(s, old, i)}
    IN  IF hits = {} THEN s
        ELSE LET i == CHOOSE j \in hits : \A k \in hits : j <= k
             IN  SubSeq(s, 1, i - 1) \o new \o SubSeq(s, i + Len(old), Len(s))

\* str.replace(old, new): every non-overlapping occurrence, left to right
RECURSIVE ReplaceAll(_, _, _)
ReplaceAll(s, old, new) ==
    IF Len(s) = 0 THEN s
    ELSE IF OccursAt(s, old, 1)
         THEN new \o ReplaceAll(SubSeq(s, Len(old) + 1, Len(s)), old, new)
         ELSE <<Head(s)>> \o ReplaceAll(Tail(s), old, new)

\* a slip: the count argument of replace() left out
database_url_async_all(url) ==
    IF StartsWith(url, PlainPrefix)
    THEN ReplaceAll(url, PlainPrefix, AsyncPrefix)
    ELSE url

database_url_async(url) ==
    IF StartsWith(url, PlainPrefix)
    THEN ReplaceFirst(url, PlainPrefix, AsyncPrefix)
    ELSE url

UrlIdle ==
    /\ url_pc = "off"
    /\ url_async = <<>>
    /\ url_again = <<>>

MigIdle ==
    /\ mig_pc = "off"
    /\ mig_in = [offline |-> FALSE, dbUp |-> FALSE, nsteps |-> 0, failAt |-> 0]
    /\ mig_mode = "none"
    /\ mig_engine = "none"
    /\ mig_opened = 0
    /\ mig_live = 0
    /\ mig_conn_src = "none"
    /\ mig_tx = "none"
    /\ mig_txcount = 0
    /\ mig_pending = <<>>
    /\ mig_schema = <<>>
    /\ mig_sql = <<>>
    /\ mig_exit = "running"
    /\ mig_error = "none"
    /\ mig_failed_step = 0

SvcIdle ==
    /\ DATABASE_POOL_MAX = 0
    /\ DATABASE_TIMEOUT = 0
    /\ dbUp = FALSE
    /\ engine = "none"
    /\ cur = 0
    /\ pools = <<>>
    /\ lifespan = "off"
    /\ disposeCalls = 0
    /\ dbOpen = 0
    /\ dbHold = <<>>
    /\ hc = <<>>
    /\ hresp = <<>>
    /\ contacted = FALSE
    /\ everAcquired = FALSE
    /\ connErrAt = {}
    /\ scenario = "off"

\* settings = Settings(), config.py:50, with DATABASE_URL from the environment
InitUrl ==
    /\ DATABASE_URL \in Urls
    /\ url_pc = "loaded"
    /\ url_async = <<>>
    /\ url_again = <<>>
    /\ MigIdle
    /\ SvcIdle

\* a read of settings.database_url_async (connection.py:9)
ReadAsyncUrl ==
    /\ url_pc = "loaded"
    /\ url_async' = database_url_async(DATABASE_URL)
    /\ url_pc' = "derived"
    /\ UNCHANGED <<DATABASE_URL, url_again, migVars, svcVars>>

\* the derived URL loaded as DATABASE_URL and derived again
RederiveAsyncUrl ==
    /\ url_pc = "derived"
    /\ url_again' = database_url_async(url_async)
    /\ url_pc' = "rederived"
    /\ UNCHANGED <<DATABASE_URL, url_async, migVars, svcVars>>

NextUrl ==
    \/ ReadAsyncUrl
    \/ RederiveAsyncUrl

SpecUrl == InitUrl /\ [][NextUrl]_vars

--------------------------------------------------------------------------
(* The migration runner, alembic/env.py.                                  *)

MaxSteps == 3

PlainUrl == PlainPrefix \o <<"x">>

AsyncUrl == AsyncPrefix \o <<"x">>

\* the revisions applied so far, in script order
StepsUpTo(k) == [i \in 1..k |-> i]

\* async_engine_from_config accepts only a URL naming an async driver;
\* the plain scheme selects the synchronous default driver
IsAsyncDriverUrl(url) == StartsWith(url, AsyncPrefix)

InitMig ==
    /\ DATABASE_URL \in {PlainUrl, AsyncUrl}
    /\ UrlIdle
    /\ SvcIdle
    /\ mig_pc = "start"
    /\ mig_in \in {r \in [offline : BOOLEAN, dbUp : BOOLEAN,
                          nsteps : 0..MaxSteps, failAt : 0..MaxSteps] :
                      r.failAt <= r.nsteps}
    /\ mig_mode = "none"
    /\ mig_engine = "none"
    /\ mig_opened = 0
    /\ mig_live = 0
    /\ mig_conn_src = "none"
    /\ mig_tx = "none"
    /\ mig_txcount = 0
    /\ mig_pending = <<>>
    /\ mig_schema = <<>>
    /\ mig_sql = <<>>
    /\ mig_exit = "running"
    /\ mig_error = "none"
    /\ mig_failed_step = 0

\* env.py:72-77
ModeSelect ==
    /\ mig_pc = "start"
    /\ mig_mode' = IF mig_in.offline THEN "offline" ELSE "online"
    /\ mig_pc' = IF mig_in.offline THEN "offline_entry" ELSE "online_entry"
    /\ UNCHANGED <<svcVars, urlVars, mig_in, mig_engine, mig_opened, mig_live,
                   mig_conn_src, mig_tx, mig_txcount, mig_pending,
                   mig_schema, mig_sql, mig_exit, mig_error, mig_failed_step>>

\* run_migrations_offline, env.py:36-44: configure(url=...), begin_transaction()
OfflineConfigure ==
    /\ mig_pc = "offline_entry"
    /\ mig_tx' = "active"
    /\ mig_txcount' = mig_txcount + 1
    /\ mig_pc' = "offline_steps"
    /\ UNCHANGED <<svcVars, urlVars, mig_in, mig_mode, mig_engine, mig_opened,
                   mig_live, mig_conn_src, mig_pending, mig_schema,
                   mig_sql, mig_exit, mig_error, mig_failed_step>>

\* context.run_migrations() offline, env.py:45: one step rendered as SQL text
OfflineStep ==
    /\ mig_pc = "offline_steps"
    /\ Len(mig_sql) < mig_in.nsteps
    /\ LET i == Len(mig_sql) + 1
       IN  IF i = mig_in.failAt
           THEN /\ mig_tx' = "aborted"
                /\ mig_exit' = "fail"
                /\ mig_error' = "StepError"
                /\ mig_failed_step' = i
                /\ mig_pc' = "done"
                /\ UNCHANGED mig_sql
           ELSE /\ mig_sql' = Append(mig_sql, i)
                /\ UNCHANGED <<mig_tx, mig_exit, mig_error,
                               mig_failed_step, mig_pc>>
    /\ UNCHANGED <<svcVars, urlVars, mig_in, mig_mode, mig_engine, mig_opened,
                   mig_live, mig_conn_src, mig_txcount, mig_pending,
                   mig_schema>>

\* the end of the with block, env.py:44-45
OfflineEnd ==
    /\ mig_pc = "offline_steps"
    /\ Len(mig_sql) = mig_in.nsteps
    /\ mig_tx' = "committed"
    /\ mig_exit' = "ok"
    /\ mig_pc' = "done"
    /\ UNCHANGED <<svcVars, urlVars, mig_in, mig_mode, mig_engine, mig_opened,
                   mig_live, mig_conn_src, mig_txcount, mig_pending,
                   mig_schema, mig_sql, mig_error, mig_failed_step>>

\* run_migrations_online, env.py:58-64: the engine is built from the raw
\* settings.DATABASE_URL with poolclass NullPool; no connection is made here
OnlineEngine ==
    /\ mig_pc = "online_entry"
    /\ IF IsAsyncDriverUrl(DATABASE_URL)
       THEN /\ mig_engine' = "NullPool"
            /\ mig_pc' = "online_engine"
            /\ UNCHANGED <<mig_exit, mig_error, mig_failed_step>>
       ELSE /\ mig_exit' = "fail"
            /\ mig_error' = "InvalidRequestError"
            /\ UNCHANGED mig_failed_step
            /\ mig_pc' = "done"
            /\ UNCHANGED mig_engine
    /\ UNCHANGED <<svcVars, urlVars, mig_in, mig_mode, mig_opened, mig_live,
                   mig_conn_src, mig_tx, mig_txcount, mig_pending,
                   mig_schema, mig_sql>>

\* async with connectable.connect(), env.py:66
OnlineConnect ==
    /\ mig_pc = "online_engine"
    /\ IF mig_in.dbUp
       THEN /\ mig_opened' = mig_opened + 1
            /\ mig_live' = mig_live + 1
            /\ mig_conn_src' = mig_engine
            /\ mig_pc' = "online_connected"
            /\ UNCHANGED <<mig_exit, mig_error, mig_failed_step>>
       ELSE /\ mig_exit' = "fail"
            /\ mig_error' = "ConnectionError"
            /\ UNCHANGED mig_failed_step
            /\ mig_pc' = "done"
            /\ UNCHANGED <<mig_opened, mig_live, mig_conn_src>>
    /\ UNCHANGED <<svcVars, urlVars, mig_in, mig_mode, mig_engine, mig_tx,
                   mig_txcount, mig_pending, mig_schema, mig_sql>>

\* do_run_migrations, env.py:50-52: configure(connection=...), begin_transaction()
DoRunBegin ==
    /\ mig_pc = "online_connected"
    /\ mig_tx' = "active"
    /\ mig_txcount' = mig_txcount + 1
    /\ mig_pc' = "online_steps"
    /\ UNCHANGED <<svcVars, urlVars, mig_in, mig_mode, mig_engine, mig_opened,
                   mig_live, mig_conn_src, mig_pending, mig_schema,
                   mig_sql, mig_exit, mig_error, mig_failed_step>>

\* a slip: each step committed on its own (no enclosing transaction), so a
\* failure keeps the steps before it
OnlineStepResultAutocommit(i) ==
    IF i = mig_in.failAt
    THEN [tx |-> "rolledback", pending |-> <<>>, schema |-> mig_pending,
          live |-> mig_live - 1, exit |-> "fail", error |-> "StepError",
          step |-> i, pc |-> "done"]
    ELSE [tx |-> mig_tx, pending |-> Append(mig_pending, i),
          schema |-> mig_schema, live |-> mig_live, exit |-> mig_exit,
          error |-> mig_error, step |-> mig_failed_step, pc |-> mig_pc]

\* context.run_migrations() on the connection, env.py:53, one step; a step
\* that raises leaves the with block of env.py:52 (rollback) and the
\* async with of env.py:66 (connection closed), and env.py:69 is skipped
OnlineStepResult(i) ==
    IF i = mig_in.failAt
    THEN [tx |-> "rolledback", pending |-> <<>>, schema |-> mig_schema,
          live |-> mig_live - 1, exit |-> "fail", error |-> "StepError",
          step |-> i, pc |-> "done"]
    ELSE [tx |-> mig_tx, pending |-> Append(mig_pending, i),
          schema |-> mig_schema, live |-> mig_live, exit |-> mig_exit,
          error |-> mig_error, step |-> mig_failed_step, pc |-> mig_pc]

OnlineStep ==
    /\ mig_pc = "online_steps"
    /\ Len(mig_pending) < mig_in.nsteps
    /\ LET r == OnlineStepResult(Len(mig_pending) + 1)
       IN  /\ mig_tx' = r.tx
           /\ mig_pending' = r.pending
           /\ mig_schema' = r.schema
           /\ mig_live' = r.live
           /\ mig_exit' = r.exit
           /\ mig_error' = r.error
           /\ mig_failed_step' = r.step
           /\ mig_pc' = r.pc
    /\ UNCHANGED <<svcVars, urlVars, mig_in, mig_mode, mig_engine, mig_opened,
                   mig_conn_src, mig_txcount, mig_sql>>

\* the normal end: commit (env.py:52-53), the connection closed (env.py:66-67),
\* connectable.dispose() (env.py:69)
OnlineCommit ==
    /\ mig_pc = "online_steps"
    /\ Len(mig_pending) = mig_in.nsteps
    /\ mig_tx' = "committed"
    /\ mig_schema' = mig_pending
    /\ mig_live' = mig_live - 1
    /\ mig_engine' = "disposed"
    /\ mig_exit' = "ok"
    /\ mig_pc' = "done"
    /\ UNCHANGED <<svcVars, urlVars, mig_in, mig_mode, mig_opened, mig_conn_src,
                   mig_txcount, mig_pending, mig_sql, mig_error,
                   mig_failed_step>>

NextMig ==
    \/ ModeSelect
    \/ OfflineConfigure
    \/ OfflineStep
    \/ OfflineEnd
    \/ OnlineEngine
    \/ OnlineConnect
    \/ DoRunBegin
    \/ OnlineStep
    \/ OnlineCommit

SpecMig == InitMig /\ [][NextMig]_vars

--------------------------------------------------------------------------
(* The service: engine and pool (app/database/connection.py), sessions    *)
(* (app/database/session.py), /health/db and lifespan (app/main.py).      *)
(* Units of work through get_db are counted; /health/db requests are      *)
(* tracked one by one because each answers with a body.                   *)

MaxPoolMax == 1

\* concurrent get_db units of work under load
MaxUnits == 12

\* concurrent get_db units of work around a shutdown
MaxLifeUnits == 3

\* concurrent /health/db requests
MaxHealth == 1

\* get_db units that hold a session they have not used yet
MaxOpen == 1

\* seconds between two observations of the clock
TickSeconds == 15

DATABASE_TIMEOUT_DEFAULT == 30

\* create_async_engine(max_overflow=10), connection.py:14
max_overflow == 10

\* create_async_engine is given no pool_timeout (connection.py:8-19): the
\* queue pool waits its own default of 30 seconds
pool_timeout == 30

Health == 1..MaxHealth

Gens == {0, 1}

NoExc == [type |-> "none", msg |-> ""]

ConnRefused == [type |-> "ConnectionRefusedError", msg |-> "Connect call failed"]

\* the connect attempt timed out: the driver raises TimeoutError()
ConnTimedOut == [type |-> "TimeoutError", msg |-> ""]

PoolTimedOut == [type |-> "sqlalchemy.exc.TimeoutError",
                 msg |-> "QueuePool limit reached, connection timed out"]

QueryFailed == [type |-> "DBAPIError", msg |-> "statement failed"]

Cancelled == [type |-> "CancelledError", msg |-> ""]

ConnectErrors == {ConnRefused, ConnTimedOut}

\* str(e), main.py:64
str(e) == e.msg

NoResp == [code |-> 0, status |-> "none", database |-> "none", error |-> "none"]

\* the exception leaves the handler: no body of the handler's is sent
Propagated(e) == [code |-> 500, status |-> "raised", database |-> "none",
                  error |-> e.type]

\* main.py:62
HealthyBody == [code |-> 200, status |-> "healthy", database |-> "connected",
                error |-> "absent"]

\* main.py:63-64
UnhealthyBody(e) == [code |-> 200, status |-> "unhealthy",
                     database |-> "disconnected", error |-> str(e)]

HealthIdle == [pc |-> "idle", gen |-> 0, holds |-> FALSE, ok |-> FALSE,
               err |-> NoExc]

\* QueuePool(pool_size=DATABASE_POOL_MAX): an empty queue of idle
\* connections, and overflow counting the connections made minus pool_size
FreshPool == [idle |-> 0, overflow |-> 0 - DATABASE_POOL_MAX, out |-> 0,
              waiters |-> <<>>]

RemoveAt(s, i) == SubSeq(s, 1, i - 1) \o SubSeq(s, i + 1, Len(s))

\* the queue's put wakes the longest-waiting getter that is not yet woken
WakeNext(ws) ==
    LET idx == {i \in 1..Len(ws) : ~ws[i].woken}
    IN  IF idx = {} THEN ws
        ELSE LET i == CHOOSE j \in idx : \A k \in idx : j <= k
             IN  [ws EXCEPT ![i].woken = TRUE]

\* the pool makes a connection: the first contact with the database
CreateConnection(p) ==
    IF dbUp
    THEN [res |-> "got", connect |-> TRUE,
          pool |-> [p EXCEPT !.overflow = @ + 1, !.out = @ + 1]]
    ELSE [res |-> "fail", connect |-> TRUE, pool |-> p]

\* a slip: connections made without regard to max_overflow
DoGetUnbounded(p) ==
    IF p.idle > 0
    THEN [res |-> "got", connect |-> FALSE,
          pool |-> [p EXCEPT !.idle = @ - 1, !.out = @ + 1]]
    ELSE CreateConnection(p)

\* the pool's checkout as configured at connection.py:8-19: an idle
\* connection, else a new one while overflow < max_overflow, else wait
DoGet(p) ==
    IF p.idle > 0
    THEN [res |-> "got", connect |-> FALSE,
          pool |-> [p EXCEPT !.idle = @ - 1, !.out = @ + 1]]
    ELSE IF p.overflow >= max_overflow
         THEN [res |-> "wait", connect |-> FALSE, pool |-> p]
         ELSE CreateConnection(p)

\* the pool's checkin: back to the queue (waking a waiter), or closed when
\* the queue already holds pool_size connections
ReturnConn(p) ==
    IF p.idle < DATABASE_POOL_MAX
    THEN [p EXCEPT !.out = @ - 1, !.idle = @ + 1, !.waiters = WakeNext(@)]
    ELSE [p EXCEPT !.out = @ - 1, !.overflow = @ - 1]

\* a slip: the session closed on normal return only
AsyncWithExitLeaky(p, how) ==
    IF how = "return" THEN ReturnConn(p) ELSE p

\* the end of "async with async_session() as session" (session.py:10-11,
\* main.py:59-61) for a session that holds a connection, on every way out
AsyncWithExit(p, how) == ReturnConn(p)

\* a slip: the engine connects as soon as it is made
create_async_engine_eager == [contact |-> TRUE, fail |-> ~dbUp]

\* create_async_engine, connection.py:8-19: no connection is made
create_async_engine == [contact |-> FALSE, fail |-> FALSE]

\* engine.dispose() on the pool: the idle connections are closed and the
\* counter reset; checked-out connections and waiters stay with this pool
PoolDispose(p) == [p EXCEPT !.idle = 0, !.overflow = 0 - DATABASE_POOL_MAX]

DbWaiters(g) ==
    Cardinality({i \in 1..Len(pools[g].waiters) : pools[g].waiters[i].who = 0})

\* get_db units of work in progress
DbUnits == dbOpen + dbHold[0] + dbHold[1] + DbWaiters(0) + DbWaiters(1)

HealthActive == {h \in Health : hc[h].pc \notin {"idle", "done"}}

\* units of work in progress; each holds an open session
UnitsInProgress == DbUnits + Cardinality(HealthActive)

\* connections checked out of the engine's pools
CheckedOut == pools[0].out + pools[1].out

\* connections held by the units of work
HeldByUnits ==
    dbHold[0] + dbHold[1] + Cardinality({h \in Health : hc[h].holds})

\* The environment is explored in two scenarios. "load": up to MaxUnits
\* get_db units and one /health/db probe at a time against a serving
\* application, enough to exhaust the pool. "lifecycle": up to
\* MaxLifeUnits get_db units and MaxHealth probes, with the shutdown
\* arriving at any moment.
UnitCap == IF scenario = "load" THEN MaxUnits ELSE MaxLifeUnits

Probes == IF scenario = "load" THEN {1} ELSE Health

SvcInit ==
    /\ scenario \in {"load", "lifecycle"}
    /\ DATABASE_POOL_MAX \in 1..MaxPoolMax
    /\ DATABASE_TIMEOUT \in {10, DATABASE_TIMEOUT_DEFAULT}
    /\ dbUp \in BOOLEAN
    /\ engine = "none"
    /\ cur = 0
    /\ pools = [g \in Gens |-> FreshPool]
    /\ lifespan = "init"
    /\ disposeCalls = 0
    /\ dbOpen = 0
    /\ dbHold = [g \in Gens |-> 0]
    /\ hc = [h \in Health |-> HealthIdle]
    /\ hresp = [h \in Health |-> NoResp]
    /\ contacted = FALSE
    /\ everAcquired = FALSE
    /\ connErrAt = {}

Init ==
    /\ DATABASE_URL = PlainUrl
    /\ UrlIdle
    /\ MigIdle
    /\ SvcInit

\* "from app.database.connection import ..." (session.py:5, main.py:16,
\* main.py:56): the first import makes the engine and the session factory
ImportConnection ==
    IF engine = "none"
    THEN /\ engine' = "created"
         /\ contacted' = (contacted \/ create_async_engine.contact)
         /\ connErrAt' = IF create_async_engine.fail
                         THEN connErrAt \cup {"create"}
                         ELSE connErrAt
    ELSE UNCHANGED <<engine, contacted, connErrAt, scenario>>

\* lifespan up to its yield, main.py:13-14
LifespanStartup ==
    /\ lifespan = "init"
    /\ lifespan' = "serving"
    /\ UNCHANGED <<urlVars, migVars, DATABASE_POOL_MAX, DATABASE_TIMEOUT,
                   dbUp, engine, cur, pools, disposeCalls, dbOpen, dbHold,
                   hc, hresp, contacted, everAcquired, connErrAt, scenario>>

\* lifespan after its yield, main.py:15-17: engine.dispose() disposes the
\* pool and gives the engine a fresh one; nothing waits for open sessions
LifespanShutdown ==
    /\ scenario = "lifecycle"
    /\ lifespan = "serving"
    /\ lifespan' = "stopped"
    /\ ImportConnection
    /\ disposeCalls' = disposeCalls + 1
    /\ pools' = [pools EXCEPT ![cur] = PoolDispose(@)]
    /\ cur' = cur + 1
    /\ UNCHANGED <<urlVars, migVars, DATABASE_POOL_MAX, DATABASE_TIMEOUT,
                   dbUp, dbOpen, dbHold, hc, hresp, everAcquired, scenario>>

\* how a unit of work moves: who = 0 is a get_db unit, otherwise a
\* /health/db request
UnitGot(who, from, g) ==
    IF who = 0
    THEN /\ dbOpen' = IF from = "open" THEN dbOpen - 1 ELSE dbOpen
         /\ dbHold' = [dbHold EXCEPT ![g] = @ + 1]
         /\ UNCHANGED hc
    ELSE /\ hc' = [hc EXCEPT ![who] = [@ EXCEPT !.pc = "executing",
                                                !.gen = g, !.holds = TRUE]]
         /\ UNCHANGED <<dbOpen, dbHold>>

UnitWaits(who) ==
    IF who = 0
    THEN /\ dbOpen' = dbOpen - 1
         /\ UNCHANGED <<dbHold, hc>>
    ELSE /\ hc' = [hc EXCEPT ![who].pc = "waiting"]
         /\ UNCHANGED <<dbOpen, dbHold>>

UnitFailed(who, from, e) ==
    IF who = 0
    THEN /\ dbOpen' = IF from = "open" THEN dbOpen ELSE dbOpen + 1
         /\ UNCHANGED <<dbHold, hc>>
    ELSE /\ hc' = [hc EXCEPT ![who] = [@ EXCEPT !.pc = "raised", !.err = e]]
         /\ UNCHANGED <<dbOpen, dbHold>>

\* the first use of a session: the engine's current pool is asked for a
\* connection
Acquire(who) ==
    LET r == DoGet(pools[cur])
    IN  /\ everAcquired' = TRUE
        /\ contacted' = (contacted \/ r.connect)
        /\ \/ /\ r.res = "got"
              /\ pools' = [pools EXCEPT ![cur] = r.pool]
              /\ UnitGot(who, "open", cur)
              /\ UNCHANGED connErrAt
           \/ /\ r.res = "wait"
              /\ pools' = [pools EXCEPT ![cur].waiters =
                              Append(@, [who |-> who, waited |-> 0,
                                         woken |-> FALSE])]
              /\ UnitWaits(who)
              /\ UNCHANGED connErrAt
           \/ /\ r.res = "fail"
              /\ \E e \in ConnectErrors : UnitFailed(who, "open", e)
              /\ connErrAt' = connErrAt \cup {"execute"}
              /\ UNCHANGED pools

\* get_db up to its yield, session.py:10-11; requests arrive while the
\* application is serving
GetDbOpen ==
    /\ lifespan = "serving"
    /\ DbUnits < UnitCap
    /\ dbOpen < MaxOpen
    /\ ImportConnection
    /\ dbOpen' = dbOpen + 1
    /\ UNCHANGED <<urlVars, migVars, DATABASE_POOL_MAX, DATABASE_TIMEOUT,
                   dbUp, cur, pools, lifespan, disposeCalls, dbHold, hc,
                   hresp, everAcquired, scenario>>

\* the unit of work uses the session get_db yielded
GetDbExecute ==
    /\ dbOpen > 0
    /\ Acquire(0)
    /\ UNCHANGED <<urlVars, migVars, DATABASE_POOL_MAX, DATABASE_TIMEOUT,
                   dbUp, engine, cur, lifespan, disposeCalls, hresp, scenario>>

\* the unit of work ends before it used the session
GetDbExitUnused ==
    /\ dbOpen > 0
    /\ \E how \in {"return", "exception", "cancel"} : dbOpen' = dbOpen - 1
    /\ UNCHANGED <<urlVars, migVars, DATABASE_POOL_MAX, DATABASE_TIMEOUT,
                   dbUp, engine, cur, pools, lifespan, disposeCalls, dbHold,
                   hc, hresp, contacted, everAcquired, connErrAt, scenario>>

\* the unit of work ends holding a connection: get_db is resumed, thrown
\* into or cancelled at its yield, and the async with exits
GetDbExit ==
    \E g \in Gens, how \in {"return", "exception", "cancel"} :
        /\ dbHold[g] > 0
        /\ dbHold' = [dbHold EXCEPT ![g] = @ - 1]
        /\ pools' = [pools EXCEPT ![g] = AsyncWithExit(@, how)]
        /\ UNCHANGED <<urlVars, migVars, DATABASE_POOL_MAX, DATABASE_TIMEOUT,
                       dbUp, engine, cur, lifespan, disposeCalls, dbOpen,
                       hc, hresp, contacted, everAcquired, connErrAt, scenario>>

\* health_check_db, main.py:55-59: the import and async_session()
HealthStart(h) ==
    /\ h \in Probes
    /\ lifespan = "serving"
    /\ hc[h].pc \in {"idle", "done"}
    /\ ImportConnection
    /\ hc' = [hc EXCEPT ![h] = [HealthIdle EXCEPT !.pc = "session"]]
    /\ hresp' = [hresp EXCEPT ![h] = NoResp]
    /\ UNCHANGED <<urlVars, migVars, DATABASE_POOL_MAX, DATABASE_TIMEOUT,
                   dbUp, cur, pools, lifespan, disposeCalls, dbOpen, dbHold,
                   everAcquired, scenario>>

\* session.execute(text("SELECT 1")), main.py:60: the connection
HealthExecute(h) ==
    /\ hc[h].pc = "session"
    /\ Acquire(h)
    /\ UNCHANGED <<urlVars, migVars, DATABASE_POOL_MAX, DATABASE_TIMEOUT,
                   dbUp, engine, cur, lifespan, disposeCalls, hresp, scenario>>

\* session.execute(text("SELECT 1")) and result.scalar(), main.py:60-61:
\* the round trip
HealthQuery(h) ==
    /\ hc[h].pc = "executing"
    /\ \/ hc' = [hc EXCEPT ![h] = [@ EXCEPT !.pc = "queried", !.ok = TRUE]]
       \/ hc' = [hc EXCEPT ![h] = [@ EXCEPT !.pc = "raised",
                                            !.err = QueryFailed]]
    /\ UNCHANGED <<urlVars, migVars, DATABASE_POOL_MAX, DATABASE_TIMEOUT,
                   dbUp, engine, cur, pools, lifespan, disposeCalls, dbOpen,
                   dbHold, hresp, contacted, everAcquired, connErrAt, scenario>>

\* health_check_db, main.py:59-64: the async with exits and the handler
\* returns its body
HealthExit(h) ==
    /\ hc[h].pc \in {"queried", "raised"}
    /\ LET how == IF hc[h].pc = "queried" THEN "return" ELSE "exception"
       IN  pools' = IF hc[h].holds
                    THEN [pools EXCEPT ![hc[h].gen] = AsyncWithExit(@, how)]
                    ELSE pools
    /\ hresp' = [hresp EXCEPT ![h] = IF hc[h].pc = "queried"
                                     THEN HealthyBody
                                     ELSE UnhealthyBody(hc[h].err)]
    /\ hc' = [hc EXCEPT ![h] = [@ EXCEPT !.pc = "done", !.holds = FALSE]]
    /\ UNCHANGED <<urlVars, migVars, DATABASE_POOL_MAX, DATABASE_TIMEOUT,
                   dbUp, engine, cur, lifespan, disposeCalls, dbOpen, dbHold,
                   contacted, everAcquired, connErrAt, scenario>>

\* the request is cancelled while it holds its session but is not waiting
\* for the pool: CancelledError is no Exception, main.py:63 lets it pass
HealthCancel(h) ==
    /\ hc[h].pc \in {"session", "executing", "queried"}
    /\ pools' = IF hc[h].holds
                THEN [pools EXCEPT ![hc[h].gen] = AsyncWithExit(@, "cancel")]
                ELSE pools
    /\ hresp' = [hresp EXCEPT ![h] = Propagated(Cancelled)]
    /\ hc' = [hc EXCEPT ![h] = [@ EXCEPT !.pc = "done", !.holds = FALSE,
                                         !.ok = FALSE, !.err = Cancelled]]
    /\ UNCHANGED <<urlVars, migVars, DATABASE_POOL_MAX, DATABASE_TIMEOUT,
                   dbUp, engine, cur, lifespan, disposeCalls, dbOpen, dbHold,
                   contacted, everAcquired, connErrAt, scenario>>

\* a woken waiter runs again: it takes the idle connection, or, when
\* another acquirer took it first, waits again behind the others
WaiterResume ==
    \E g \in Gens : \E i \in 1..Len(pools[g].waiters) :
        LET p == pools[g]
            w == p.waiters[i]
        IN  /\ w.woken
            /\ IF p.idle > 0
               THEN /\ pools' = [pools EXCEPT ![g] =
                           [p EXCEPT !.idle = @ - 1, !.out = @ + 1,
                                     !.waiters = RemoveAt(@, i)]]
                    /\ UnitGot(w.who, "wait", g)
               ELSE /\ pools' = [pools EXCEPT ![g].waiters =
                           Append(RemoveAt(@, i), [w EXCEPT !.woken = FALSE])]
                    /\ UNCHANGED <<dbOpen, dbHold, hc>>
            /\ UNCHANGED <<urlVars, migVars, DATABASE_POOL_MAX,
                           DATABASE_TIMEOUT, dbUp, engine, cur, lifespan,
                           disposeCalls, hresp, contacted, everAcquired,
                           connErrAt, scenario>>

\* a waiter's wait ends after pool_timeout: TimeoutError when the pool is
\* still at its limit, otherwise the waiter makes a connection
WaiterTimeout ==
    \E g \in Gens : \E i \in 1..Len(pools[g].waiters) :
        LET p == pools[g]
            w == p.waiters[i]
            p1 == [p EXCEPT !.waiters = RemoveAt(@, i)]
            r == CreateConnection(p1)
        IN  /\ ~w.woken
            /\ w.waited >= pool_timeout
            /\ IF p.overflow >= max_overflow
               THEN /\ pools' = [pools EXCEPT ![g] = p1]
                    /\ UnitFailed(w.who, "wait", PoolTimedOut)
                    /\ UNCHANGED <<contacted, connErrAt, scenario>>
               ELSE /\ contacted' = TRUE
                    /\ IF r.res = "got"
                       THEN /\ pools' = [pools EXCEPT ![g] = r.pool]
                            /\ UnitGot(w.who, "wait", g)
                            /\ UNCHANGED connErrAt
                       ELSE /\ pools' = [pools EXCEPT ![g] = p1]
                            /\ \E e \in ConnectErrors :
                                   UnitFailed(w.who, "wait", e)
                            /\ connErrAt' = connErrAt \cup {"execute"}
            /\ UNCHANGED <<urlVars, migVars, DATABASE_POOL_MAX,
                           DATABASE_TIMEOUT, dbUp, engine, cur, lifespan,
                           disposeCalls, hresp, everAcquired, scenario>>

\* a waiting unit of work is cancelled: it leaves the queue's getters, and
\* a wake-up it had received is passed on
WaiterCancel ==
    \E g \in Gens : \E i \in 1..Len(pools[g].waiters) :
        LET p == pools[g]
            w == p.waiters[i]
            rest == RemoveAt(p.waiters, i)
        IN  /\ pools' = [pools EXCEPT ![g].waiters =
                            IF w.woken /\ p.idle > 0 THEN WakeNext(rest)
                            ELSE rest]
            /\ IF w.who = 0
               THEN UNCHANGED <<hc, hresp>>
               ELSE /\ hc' = [hc EXCEPT ![w.who] =
                                 [@ EXCEPT !.pc = "done", !.err = Cancelled]]
                    /\ hresp' = [hresp EXCEPT ![w.who] = Propagated(Cancelled)]
            /\ UNCHANGED <<urlVars, migVars, DATABASE_POOL_MAX,
                           DATABASE_TIMEOUT, dbUp, engine, cur, lifespan,
                           disposeCalls, dbOpen, dbHold, contacted,
                           everAcquired, connErrAt, scenario>>

\* TickSeconds pass for every waiter; a wait that has reached pool_timeout
\* ends before the clock moves on
Tick ==
    /\ \E g \in Gens : Len(pools[g].waiters) > 0
    /\ \A g \in Gens : \A i \in 1..Len(pools[g].waiters) :
           pools[g].waiters[i].woken \/ pools[g].waiters[i].waited < pool_timeout
    /\ pools' = [g \in Gens |->
                    [pools[g] EXCEPT !.waiters =
                        [i \in 1..Len(pools[g].waiters) |->
                            [pools[g].waiters[i] EXCEPT !.waited =
                                IF @ < pool_timeout THEN @ + TickSeconds
                                ELSE @]]]]
    /\ UNCHANGED <<urlVars, migVars, DATABASE_POOL_MAX, DATABASE_TIMEOUT,
                   dbUp, engine, cur, lifespan, disposeCalls, dbOpen, dbHold,
                   hc, hresp, contacted, everAcquired, connErrAt, scenario>>

Next ==
    \/ LifespanStartup
    \/ LifespanShutdown
    \/ GetDbOpen
    \/ GetDbExecute
    \/ GetDbExitUnused
    \/ GetDbExit
    \/ \E h \in Health : HealthStart(h)
    \/ \E h \in Health : HealthExecute(h)
    \/ \E h \in Health : HealthQuery(h)
    \/ \E h \in Health : HealthExit(h)
    \/ \E h \in Health : HealthCancel(h)
    \/ WaiterResume
    \/ WaiterTimeout
    \/ WaiterCancel
    \/ Tick

Spec == Init /\ [][Next]_vars


--------------------------------------------------------------------------
(* The claims.                                                            *)

\* C1: every session opened for a unit of work (get_db, /health/db) is
\* returned to the pool when the unit ends, by return, exception or
\* cancellation: the connections checked out are exactly those held by
\* units in progress, so with no unit in progress none is checked out.
C1_SessionsReleased ==
    /\ CheckedOut = HeldByUnits
    /\ UnitsInProgress = 0 => CheckedOut = 0

\* C1's case: a /health/db request whose query raised has ended, no unit is
\* in progress, and its connection is back in the pool's queue.
C1_Witness ==
    /\ UnitsInProgress = 0
    /\ hc[1].pc = "done"
    /\ hc[1].err = QueryFailed
    /\ pools[0].idle = 1
    /\ pools[0].out = 0

\* C2: dispose() is final: no connection is handed out by the engine's pool
\* after dispose() has been called.
C2_NoCheckoutAfterDispose ==
    disposeCalls > 0 => pools[cur].out = 0

\* C3: dispose() is invoked exactly once per run, after the lifespan's
\* yield, and at the moment it is invoked no unit of work holds an open
\* session.
C3_DisposeOnceAfterDrain ==
    [][/\ disposeCalls' = (IF lifespan' = "stopped" THEN 1 ELSE 0)
       /\ disposeCalls' > disposeCalls =>
              /\ lifespan = "serving"
              /\ UnitsInProgress = 0]_vars

\* C4: while the service is running (its pool not yet disposed), at most
\* DATABASE_POOL_MAX + max_overflow connections are checked out, whatever
\* the number of concurrent units of work.
C4_CheckedOutBounded ==
    disposeCalls = 0 =>
        /\ CheckedOut <= DATABASE_POOL_MAX + max_overflow
        /\ pools[cur].out + pools[cur].idle <= DATABASE_POOL_MAX + max_overflow

\* C4's case: the pool is at its limit and a further acquirer waits.
C4_Witness ==
    /\ disposeCalls = 0
    /\ CheckedOut = DATABASE_POOL_MAX + max_overflow
    /\ Len(pools[cur].waiters) > 0

\* C5: an acquirer that finds the pool at its limit waits no longer than
\* the configured DATABASE_TIMEOUT: once that time has elapsed its wait has
\* ended (with a connection or with the pool's timeout error).
C5_WaitEndsAtConfiguredTimeout ==
    \A g \in Gens : \A i \in 1..Len(pools[g].waiters) :
        pools[g].waiters[i].waited <= DATABASE_TIMEOUT

\* C6: making the engine contacts nothing: no connection to the database
\* is attempted before a session is first used, and a failure to connect
\* surfaces only there, never at creation or startup.
C6_LazyConnect ==
    /\ ~everAcquired => ~contacted
    /\ connErrAt \subseteq {"execute"}
    /\ \A h \in Health : hc[h].err \in ConnectErrors => everAcquired

\* C6's case: the database is unreachable, the service has started and is
\* serving, and the first use of a session has failed to connect.
C6_Witness ==
    /\ ~dbUp
    /\ lifespan = "serving"
    /\ engine = "created"
    /\ connErrAt = {"execute"}
    /\ hc[1].pc = "raised"
    /\ hc[1].err = ConnRefused

\* C7: a finished migration run has taken one mode; offline it has opened
\* no connection; online (with the database reachable) it has opened
\* exactly one connection, from its own NullPool engine, and that
\* connection is closed.
C7_OneModeOneConnection ==
    mig_pc = "done" =>
        /\ mig_mode \in {"offline", "online"}
        /\ mig_mode = (IF mig_in.offline THEN "offline" ELSE "online")
        /\ mig_mode = "offline" => mig_opened = 0 /\ mig_live = 0
        /\ mig_mode = "online" /\ mig_in.dbUp =>
               /\ mig_opened = 1
               /\ mig_conn_src = "NullPool"
               /\ mig_live = 0

\* C8: an online run executes its steps in script order inside one
\* transaction that commits only if every step succeeded; when a step
\* fails the transaction is rolled back, nothing is retained, the
\* connection is closed and the run ends in failure naming that step.
C8_OnlineAllOrNothing ==
    mig_mode = "online" =>
        /\ mig_pending = StepsUpTo(Len(mig_pending))
        /\ mig_txcount <= 1
        /\ mig_tx = "committed" =>
               /\ mig_in.failAt = 0
               /\ mig_pending = StepsUpTo(mig_in.nsteps)
               /\ mig_schema = StepsUpTo(mig_in.nsteps)
        /\ mig_exit = "ok" => mig_tx = "committed"
        /\ mig_pc = "done" /\ mig_in.failAt # 0 =>
               /\ mig_exit = "fail"
               /\ mig_schema = <<>>
               /\ mig_live = 0
        /\ mig_error = "StepError" =>
               /\ mig_tx = "rolledback"
               /\ mig_failed_step = mig_in.failAt
               /\ mig_schema = <<>>
               /\ mig_live = 0
               /\ mig_exit = "fail"

\* C8's case: steps [1, 2, 3] of which step 2 failed after step 1 had run.
C8_Witness ==
    /\ mig_mode = "online"
    /\ mig_pc = "done"
    /\ mig_in.nsteps = 3
    /\ mig_in.failAt = 2
    /\ mig_error = "StepError"
    /\ mig_failed_step = 2
    /\ mig_opened = 1

\* C9: /health/db answers every database failure with a normal response
\* {unhealthy, disconnected, error: non-empty message}, and answers
\* {healthy, connected} only when the session and the query succeeded.
C9_HealthReportsFailure ==
    \A h \in Health :
        /\ hc[h].pc = "done" /\ hc[h].err \notin {NoExc, Cancelled} =>
               /\ hresp[h].code = 200
               /\ hresp[h].status = "unhealthy"
               /\ hresp[h].database = "disconnected"
               /\ hresp[h].error # ""
        /\ hresp[h].status = "healthy" =>
               /\ hresp[h].code = 200
               /\ hresp[h].database = "connected"
               /\ hc[h].ok
               /\ hc[h].err = NoExc

\* C10: the derived URL is DATABASE_URL with the leading "postgresql://"
\* replaced by "postgresql+asyncpg://" and the rest untouched; any other
\* URL, an already qualified one included, is returned unchanged; deriving
\* again from the result changes nothing.
C10_AsyncUrlTransform ==
    url_pc \in {"derived", "rederived"} =>
        /\ StartsWith(DATABASE_URL, PlainPrefix) =>
               url_async = AsyncPrefix \o SubSeq(DATABASE_URL,
                                                 Len(PlainPrefix) + 1,
                                                 Len(DATABASE_URL))
        /\ ~StartsWith(DATABASE_URL, PlainPrefix) => url_async = DATABASE_URL
        /\ StartsWith(DATABASE_URL, AsyncPrefix) => url_async = DATABASE_URL
        /\ url_pc = "rederived" => url_again = url_async

\* C10's case: a plain URL that holds "postgresql://" a second time.
C10_Witness ==
    /\ url_pc = "rederived"
    /\ DATABASE_URL = <<"postgresql", "://", "x", "postgresql", "://">>
    /\ url_async = <<"postgresql", "+asyncpg", "://", "x", "postgresql", "://">>
    /\ url_again = url_async

==========================================================================
